---- MODULE Spec2Model ----
(***************************************************************************)
(* The crawl orchestrator of Arachnid (arachnid/crawler/crawler.py): the   *)
(* Crawler's construction and its crawl_next() cycle, over the frontier    *)
(* (Scheduler), the URL model (CrawlerURL), the extraction engine          *)
(* (Scraper, DocumentResponse) and the output accumulator (DomainData).    *)
(*                                                                         *)
(* A URL string is a sequence of tokens: the labels and dots of its host,  *)
(* then the tokens of its path, then at most one query token and one       *)
(* fragment token, e.g. <<"x", ".", "com", "/", "a", " ", "b", "?q">>.     *)
(***************************************************************************)
EXTENDS Integers, Sequences, FiniteSets, TLC

VARIABLES
    seed_url,        \* the seed string the Crawler was constructed on
    config,          \* Crawler.config: the CrawlerConfig in use
    shared_default,  \* the CrawlerConfig() instance that is the default of
                     \* __init__'s config parameter, made once when the
                     \* function is defined: its fields (config), and whether
                     \* this Crawler's self.config is that instance (held)
    url_default_aq,  \* CrawlerURL's default for allow_query (class constant)
    schedule,        \* Crawler.schedule: the Scheduler (frontier)
    output,          \* Crawler.output: the DomainData accumulator
    delay_sw,        \* Crawler.delay_sw: the delay Timer
    dequeued,        \* history: every URL next_url() has returned, in order
    last             \* history: what the latest crawl_next() call did: the
                     \* response it fetched, what it returned, whether the try
                     \* block raised, its waits on the delay timer, its fetches
                     \* and the parse method the response was handed to

vars ==
    <<seed_url, config, shared_default, url_default_aq, schedule, output, delay_sw,
      dequeued, last>>

\* ------------------------------------------------------------------ bounds

\* Most matches one pattern scan finds on one page.
MaxMatches == 1
\* Most fields assigned directly on a configuration after set_default().
MaxConfigChanges == 1
\* Most crawl_next() calls made after the frontier is exhausted.
MaxFinishCalls == 2

\* ------------------------------------------------------- sequence helpers

Range(s) == {s[i] : i \in 1..Len(s)}

IsPrefix(p, s) == Len(p) <= Len(s) /\ SubSeq(s, 1, Len(p)) = p

IsSuffix(p, s) == Len(p) <= Len(s) /\ SubSeq(s, Len(s) - Len(p) + 1, Len(s)) = p

\* Index of the first element of s that is in set T, or Len(s) + 1.
RECURSIVE FirstIn(_, _, _)
FirstIn(s, T, i) ==
    IF i > Len(s) THEN Len(s) + 1
    ELSE IF s[i] \in T THEN i
    ELSE FirstIn(s, T, i + 1)

\* ------------------------------------------------------------ URL strings

Whitespace == {" "}
QueryTokens == {"?q"}
FragmentTokens == {"#f"}
\* A token no URL parser accepts.
BadTokens == {"["}

SeedNetloc == <<"x", ".", "com">>
SubNetloc == <<"sub", ".", "x", ".", "com">>
OtherNetloc == <<"evil", ".", "org">>

\* The seeds a Crawler is constructed on.
Seeds == {SeedNetloc \o <<"/">>, SeedNetloc \o <<"/", "?q">>}

\* Raw references as find_all_http_refs() returns them.
RefSpace == <<"/", "d", "/", "a", " ", "b">>           \* relative, holds a space
RefEncoded == <<" ">> \o SeedNetloc \o <<"/", "d", "/", "a", "%20", "b", "#f", " ">>
RefPrivate == SeedNetloc \o <<"/", "private", "/", "x">>
RefSeedQuery == SeedNetloc \o <<"/", "?q">>
RefSub == SubNetloc \o <<"/">>
RefOther == OtherNetloc \o <<"/">>
RefBad == <<"[">>                                      \* unparsable

\* The reference lists of the pages of the crawled site.
PageRefs ==
    { <<>>,
      <<RefSpace, RefEncoded>>,
      <<RefPrivate, RefSub>>,
      <<RefSeedQuery>>,
      <<RefOther, RefSpace, RefSub>>,
      <<RefSub, RefBad, RefSpace>> }

\* data/fuzz_list.txt and data/subdomain_fuzz_list.txt, as loaded.
PathsList == << <<"admin">>, <<"private", "/", "x">> >>
SubsList == << <<"sub">> >>

\* str.strip()
RECURSIVE Strip(_)
Strip(s) ==
    IF s = <<>> THEN s
    ELSE IF Head(s) \in Whitespace THEN Strip(Tail(s))
    ELSE IF s[Len(s)] \in Whitespace THEN Strip(SubSeq(s, 1, Len(s) - 1))
    ELSE s

\* str.replace(" ", "%20")
ReplaceSpaces(s) == [i \in 1..Len(s) |-> IF s[i] = " " THEN "%20" ELSE s[i]]

\* The host part of a URL string: the tokens before its path, query and fragment.
NetlocOf(url) ==
    SubSeq(url, 1, FirstIn(url, {"/"} \cup QueryTokens \cup FragmentTokens, 1) - 1)

\* url_functions.join_url(base, page): an absolute-path reference takes the
\* base's host, an absolute URL stands as it is.
JoinUrl(base, page) ==
    IF page = <<>> THEN base
    ELSE IF Head(page) = "/" THEN NetlocOf(base) \o page
    ELSE page

\* ------------------------------------------------------------- CrawlerURL

\* Whether CrawlerURL(url) raises (MalformedURLError).
Malformed(url) ==
    \/ Range(url) \cap BadTokens # {}
    \/ NetlocOf(url) = <<>>

\* CrawlerURL(url, is_fuzzed, allow_query): fragment stripped, the query kept
\* only when allow_query, an empty path read as "/".
CrawlerURL(url, is_fuzzed, allow_query) ==
    LET noFrag == SubSeq(url, 1, FirstIn(url, FragmentTokens, 1) - 1)
        qAt == FirstIn(noFrag, QueryTokens, 1)
        netloc == NetlocOf(noFrag)
        rawPath == SubSeq(noFrag, Len(netloc) + 1, qAt - 1)
    IN  [netloc |-> netloc,
         path |-> IF rawPath = <<>> THEN <<"/">> ELSE rawPath,
         query |-> IF allow_query /\ qAt <= Len(noFrag) THEN noFrag[qAt] ELSE "",
         fuzzed |-> is_fuzzed]

\* What next_url() returns for None.
NoUrl == [netloc |-> <<>>, path |-> <<>>, query |-> "", fuzzed |-> FALSE]

\* CrawlerURL.get_url()
GetUrl(c) == c.netloc \o c.path \o (IF c.query = "" THEN <<>> ELSE <<c.query>>)

\* CrawlerURL equality: the dedup key.
Key(c) == <<c.netloc, c.path, c.query>>

\* in_scope(url, root_netloc, allow_subdomains)
InScope(c, root_netloc, allow_subdomains) ==
    \/ c.netloc = root_netloc
    \/ /\ allow_subdomains
       /\ Len(c.netloc) > Len(root_netloc) + 1
       /\ IsSuffix(<<".">> \o root_netloc, c.netloc)

\* ----------------------------------------------------------------- robots

\* The robots resource of each host: disallowed path prefixes and crawl-delay.
RobotsPolicy(netloc) ==
    IF netloc = SeedNetloc
    THEN [disallow |-> {<<"/", "private", "/">>}, delay |-> 2]
    ELSE [disallow |-> {}, delay |-> 0]

RobotsDisallowed(c) == \E p \in RobotsPolicy(c.netloc).disallow : IsPrefix(p, c.path)

\* ---------------------------------------------------------- CrawlerConfig

DefaultDocuments ==
    {"doc", "docx", "ppt", "pptx", "pps", "xls", "xlsx", "csv", "odt", "odp", "pdf",
     "txt", "zip", "rar", "dmg", "exe", "apk", "bin", "rpm", "dpkg"}

\* arachnid_enums.Delay: the lists random.choice() samples.
DelayNone == <<0>>
DelayHigh == <<1, 3>>

\* CrawlerConfig.set_default(). custom_regex FALSE stands for None. The agent
\* and the custom string do not bear on the frontier and are left out.
DefaultConfig ==
    [scrape_links |-> TRUE,
     scrape_subdomains |-> TRUE,
     scrape_phone_number |-> TRUE,
     scrape_email |-> TRUE,
     scrape_social_media |-> TRUE,
     documents |-> DefaultDocuments,
     obey_robots |-> TRUE,
     allow_query |-> TRUE,
     custom_regex |-> FALSE,
     default_delay |-> DelayNone,
     fuzz_paths |-> FALSE,
     fuzz_subs |-> FALSE,
     blacklisted_directories |-> {}]

AllConfigs ==
    [scrape_links : BOOLEAN,
     scrape_subdomains : BOOLEAN,
     scrape_phone_number : BOOLEAN,
     scrape_email : BOOLEAN,
     scrape_social_media : BOOLEAN,
     documents : {DefaultDocuments, {}},
     obey_robots : BOOLEAN,
     allow_query : BOOLEAN,
     custom_regex : BOOLEAN,
     default_delay : {DelayNone, DelayHigh},
     fuzz_paths : BOOLEAN,
     fuzz_subs : BOOLEAN,
     blacklisted_directories : {{}, {<<"/", "d">>}}]

\* CrawlerConfig.set_stealth()
SetStealth(c) ==
    [c EXCEPT !.obey_robots = TRUE, !.default_delay = DelayHigh,
              !.fuzz_paths = FALSE, !.fuzz_subs = FALSE]

\* CrawlerConfig.set_aggressive()
SetAggressive(c) ==
    [c EXCEPT !.obey_robots = FALSE, !.default_delay = DelayNone,
              !.fuzz_paths = TRUE, !.fuzz_subs = TRUE]

\* CrawlerConfig.set_layout_only(). The custom string is left out.
SetLayoutOnly(c) ==
    [c EXCEPT !.scrape_subdomains = FALSE, !.scrape_phone_number = FALSE,
              !.scrape_email = FALSE, !.scrape_social_media = FALSE,
              !.documents = {}, !.custom_regex = FALSE]

\* The configurations the three profile methods build from set_default().
ProfileConfigs ==
    LET D == DefaultConfig
    IN  {D, SetStealth(D), SetAggressive(D), SetLayoutOnly(D),
         SetLayoutOnly(SetStealth(D)), SetLayoutOnly(SetAggressive(D))}

\* The configurations a Crawler is constructed with: one a profile builds,
\* the same with scrape_links turned off, or set_default() with at most
\* MaxConfigChanges fields assigned.
Configs ==
    ProfileConfigs \cup
    {[c EXCEPT !.scrape_links = FALSE] : c \in ProfileConfigs} \cup
    {c \in AllConfigs :
        Cardinality({f \in DOMAIN c : c[f] # DefaultConfig[f]}) <= MaxConfigChanges}

\* ---------------------------------------------------- Scheduler (frontier)
\* State: root (the seed's host), the three policies, the FIFO queue, the
\* visited set (dedup keys), host (the host of the URL next_url() returned
\* last, <<>> before the first), calls: the candidate lists passed to
\* report_found_urls() since the current crawl_next() began, and enqueued:
\* every entry ever appended to the queue, in the order it was appended.

\* A candidate is enqueued iff it is in scope, not visited and not disallowed
\* by robots (consulted only when respect_robots).
Admit(s, c) ==
    /\ InScope(c, s.root, s.allow_subdomains)
    /\ Key(c) \notin s.visited
    /\ ~(s.respect_robots /\ RobotsDisallowed(c))

ScheduleUrl(s, c) ==
    IF Admit(s, c)
    THEN [s EXCEPT !.visited = @ \cup {Key(c)}, !.queue = Append(@, c),
                   !.enqueued = Append(@, c)]
    ELSE s

RECURSIVE ScheduleAll(_, _)
ScheduleAll(s, cs) ==
    IF cs = <<>> THEN s ELSE ScheduleAll(ScheduleUrl(s, Head(cs)), Tail(cs))

\* Scheduler.report_found_urls(candidates)
ReportFoundUrls(s, cs) == [ScheduleAll(s, cs) EXCEPT !.calls = Append(@, cs)]

\* The path-fuzz set of one host: the path list joined to it, marked fuzzed.
PathCandidates(netloc, paths) ==
    [i \in 1..Len(paths) |-> CrawlerURL(netloc \o <<"/">> \o paths[i], TRUE, FALSE)]

\* Every subdomain of the list, each followed by its own path-fuzz set.
RECURSIVE SubCandidates(_, _, _)
SubCandidates(root, subs, paths) ==
    IF subs = <<>> THEN <<>>
    ELSE LET netloc == Head(subs) \o <<".">> \o root
         IN  <<CrawlerURL(netloc \o <<"/">>, TRUE, FALSE)>>
                 \o PathCandidates(netloc, paths)
                 \o SubCandidates(root, Tail(subs), paths)

FuzzCandidates(seed, fuzzing_options) ==
    PathCandidates(seed.netloc, fuzzing_options.paths)
        \o SubCandidates(seed.netloc, fuzzing_options.subs, fuzzing_options.paths)

\* Scheduler(seed, ...): the seed is enqueued and marked visited, then every
\* fuzz candidate is filtered as a discovered link is.
SchedulerNew(seed, fuzzing_options, respect_robots, allow_subdomains, blacklist_dirs) ==
    ScheduleAll([root |-> seed.netloc,
                 respect_robots |-> respect_robots,
                 allow_subdomains |-> allow_subdomains,
                 blacklist_dirs |-> blacklist_dirs,
                 queue |-> <<seed>>,
                 visited |-> {Key(seed)},
                 host |-> <<>>,
                 calls |-> <<>>,
                 enqueued |-> <<seed>>],
                FuzzCandidates(seed, fuzzing_options))

Blacklisted(s, c) == \E d \in s.blacklist_dirs : IsPrefix(d, c.path)

RECURSIVE SkipBlacklisted(_, _)
SkipBlacklisted(s, q) ==
    IF q = <<>> THEN q
    ELSE IF Blacklisted(s, Head(q)) THEN SkipBlacklisted(s, Tail(q))
    ELSE q

\* Scheduler.next_url(): the front of the queue after the blacklisted entries
\* before it are dropped, or None.
NextUrl(s) ==
    LET q == SkipBlacklisted(s, s.queue)
    IN  IF q = <<>>
        THEN [url |-> NoUrl, schedule |-> [s EXCEPT !.queue = <<>>]]
        ELSE [url |-> Head(q),
              schedule |-> [s EXCEPT !.queue = Tail(q), !.host = Head(q).netloc]]

\* Scheduler.get_crawl_delay()
GetCrawlDelay(s) ==
    IF s.respect_robots /\ s.host # <<>> THEN RobotsPolicy(s.host).delay ELSE 0

\* ------------------------------------------------ DomainData (accumulator)
\* Calls of start() and end(); appended: the records each section received
\* since the current crawl_next() began; out_of_phase: the records appended
\* before start() or after end(), over the whole crawl.

NoRecords ==
    [pages |-> 0, documents |-> 0, emails |-> 0, phones |-> 0, socials |-> 0,
     custom |-> 0]

DomainDataNew(netloc) ==
    [netloc |-> netloc, start_calls |-> 0, end_calls |-> 0, config_added |-> FALSE,
     appended |-> NoRecords, out_of_phase |-> 0]

DomainDataStart(o) == [o EXCEPT !.start_calls = @ + 1]

DomainDataEnd(o) == [o EXCEPT !.end_calls = @ + 1]

AddConfig(o) == [o EXCEPT !.config_added = TRUE]

\* n calls of add_email / add_phone / ... / add_page / add_document
AddRecords(o, section, n) ==
    [o EXCEPT !.appended[section] = @ + n,
              !.out_of_phase =
                  @ + (IF o.start_calls = 0 \/ o.end_calls > 0 THEN n ELSE 0)]

Records(a) == a.pages + a.documents + a.emails + a.phones + a.socials + a.custom

\* -------------------------------------------------------------- responses
\* What requests.get() produces: ok FALSE is a raised transport error;
\* content_type "" is a response without the header; refs and matches are
\* what the Scraper finds in the body; ext is the response's extension;
\* fails names the step of the Scraper that raises on this body ("" for none):
\* one of the pattern scans, or "title", read when page_info is built.

HtmlTypes == {"text/html", "text/html; charset=utf-8"}

\* The pattern scans of _parse_page, in the order it runs them.
Scans == <<"emails", "phones", "socials", "custom">>

ErrorResponses ==
    {[ok |-> FALSE, content_type |-> "", refs |-> <<>>, matches |-> 0, ext |-> "",
      fails |-> ""]}

\* The reference list of the pages a step of the Scraper raises on.
FailingPageRefs == {<<RefPrivate, RefSub>>}

\* The HTML pages of the site: a page without references, on which each scan
\* finds up to MaxMatches matches; the pages with references, on which each
\* finds MaxMatches; and the pages a step of the Scraper raises on.
HtmlResponses ==
    [ok : {TRUE}, content_type : {"text/html; charset=utf-8"},
     refs : {<<>>}, matches : 0..MaxMatches, ext : {""}, fails : {""}]
    \cup
    [ok : {TRUE}, content_type : {"text/html; charset=utf-8"},
     refs : PageRefs, matches : {MaxMatches}, ext : {""}, fails : {""}]
    \cup
    [ok : {TRUE}, content_type : {"text/html; charset=utf-8"},
     refs : FailingPageRefs, matches : {MaxMatches}, ext : {""},
     fails : Range(Scans) \cup {"title"}]

DocumentResponses ==
    [ok : {TRUE}, content_type : {"application/zip"}, refs : {<<>>},
     matches : {0}, ext : {"zip", "dat"}, fails : {""}]

UntypedResponses ==
    [ok : {TRUE}, content_type : {""}, refs : {<<>>}, matches : {0}, ext : {"zip"},
     fails : {""}]

Responses == ErrorResponses \cup HtmlResponses \cup DocumentResponses \cup UntypedResponses

\* responseparser.DocumentResponse(response, documents).extract(): a record
\* iff the response's extension is recognized.
DocumentExtract(resp, documents) == resp.ext \in documents

\* ---------------------------------------------------------------- Crawler

\* seed = CrawlerURL(seed): no allow_query is passed, the class default holds.
SeedCUrl(seed, default_allow_query) == CrawlerURL(seed, FALSE, default_allow_query)

\* Mutant of FuzzingOptionsOf: the two flags taken for each other.
FuzzingOptionsSwapped(cfg) ==
    [paths |-> IF cfg.fuzz_subs THEN PathsList ELSE <<>>,
     subs |-> IF cfg.fuzz_paths THEN SubsList ELSE <<>>]

\* FuzzingOptions(paths file if fuzz_paths else None, subs file if fuzz_subs else None)
FuzzingOptionsOf(cfg) ==
    [paths |-> IF cfg.fuzz_paths THEN PathsList ELSE <<>>,
     subs |-> IF cfg.fuzz_subs THEN SubsList ELSE <<>>]

\* Mutants of NewSchedule: allow_subdomains left at True; respect_robots
\* passed as False; blacklist_dirs not passed.
NewScheduleNoBlacklist(seed, cfg) ==
    SchedulerNew(seed, FuzzingOptionsOf(cfg), cfg.obey_robots, cfg.scrape_subdomains,
                 {})

NewScheduleAllSubdomains(seed, cfg) ==
    SchedulerNew(seed, FuzzingOptionsOf(cfg), cfg.obey_robots, TRUE,
                 cfg.blacklisted_directories)

NewScheduleNoRobots(seed, cfg) ==
    SchedulerNew(seed, FuzzingOptionsOf(cfg), FALSE, cfg.scrape_subdomains,
                 cfg.blacklisted_directories)

\* self.schedule = Scheduler(seed, ..., respect_robots, allow_subdomains, blacklist_dirs)
NewSchedule(seed, cfg) ==
    SchedulerNew(seed, FuzzingOptionsOf(cfg), cfg.obey_robots, cfg.scrape_subdomains,
                 cfg.blacklisted_directories)

\* self.output = DomainData(netloc); start(); add_config(config)
NewOutput(seed, cfg) == AddConfig(DomainDataStart(DomainDataNew(seed.netloc)))

\* Mutant of UpdateCrawlDelay: the frontier's delay is read and not used.
UpdateCrawlDelayDefaultOnly(s, default_delay) ==
    [duration |-> default_delay,
     running |-> FALSE,
     default_delay |-> default_delay,
     s_delay |-> GetCrawlDelay(s)]

\* Crawler._update_crawl_delay(): the Timer it builds; default_delay (the
\* sample random.choice drew) and s_delay are its two operands, kept with it.
UpdateCrawlDelay(s, default_delay) ==
    LET s_delay == GetCrawlDelay(s)
    IN  [duration |-> IF default_delay > s_delay THEN default_delay ELSE s_delay,
         running |-> FALSE,
         default_delay |-> default_delay,
         s_delay |-> s_delay]

\* Timer.start()
TimerStart(t) == [t EXCEPT !.running = TRUE]

\* Mutant of DelayWait: the call blocks on a new Timer().
DelayWaitFresh(t) == [duration |-> 0, running |-> FALSE]

\* self.delay_sw.wait(): the timer the call blocks on, by its duration and
\* whether it was started.
DelayWait(t) == [duration |-> t.duration, running |-> t.running]

\* No timer was waited on.
NoWait == [duration |-> 0, running |-> FALSE]

\* The URL string one reference of the page becomes.
FoundUrl(c_url, page) == JoinUrl(GetUrl(c_url), ReplaceSpaces(Strip(page)))

\* Mutant of FoundCUrls: config.scrape_links is not consulted.
FoundCUrlsAlways(cfg, c_url, refs) ==
    IF \E i \in 1..Len(refs) : Malformed(FoundUrl(c_url, refs[i]))
    THEN [urls |-> <<>>, raised |-> TRUE]
    ELSE [urls |-> [i \in 1..Len(refs) |->
                       CrawlerURL(FoundUrl(c_url, refs[i]), FALSE, cfg.allow_query)],
          raised |-> FALSE]

\* Mutant of FoundCUrls: the references taken last to first.
FoundCUrlsReversed(cfg, c_url, refs) ==
    IF ~cfg.scrape_links THEN [urls |-> <<>>, raised |-> FALSE]
    ELSE IF \E i \in 1..Len(refs) : Malformed(FoundUrl(c_url, refs[i]))
    THEN [urls |-> <<>>, raised |-> TRUE]
    ELSE [urls |-> [i \in 1..Len(refs) |->
                       CrawlerURL(FoundUrl(c_url, refs[Len(refs) + 1 - i]), FALSE,
                                  cfg.allow_query)],
          raised |-> FALSE]

\* The loop of _parse_page that builds found_c_urls: a reference CrawlerURL
\* cannot parse raises out of the loop.
FoundCUrls(cfg, c_url, refs) ==
    IF ~cfg.scrape_links THEN [urls |-> <<>>, raised |-> FALSE]
    ELSE IF \E i \in 1..Len(refs) : Malformed(FoundUrl(c_url, refs[i]))
    THEN [urls |-> <<>>, raised |-> TRUE]
    ELSE [urls |-> [i \in 1..Len(refs) |->
                       CrawlerURL(FoundUrl(c_url, refs[i]), FALSE, cfg.allow_query)],
          raised |-> FALSE]

\* The toggle a pattern scan of _parse_page is behind.
ScanEnabled(cfg, scan) ==
    CASE scan = "emails" -> cfg.scrape_email
      [] scan = "phones" -> cfg.scrape_phone_number
      [] scan = "socials" -> cfg.scrape_social_media
      [] scan = "custom" -> cfg.custom_regex

\* The scans, in order, each behind its toggle: a scan that is run and raises
\* ends them, the records of the scans before it already added.
RECURSIVE RunScans(_, _, _, _)
RunScans(cfg, o, resp, scans) ==
    IF scans = <<>> THEN [output |-> o, raised |-> FALSE]
    ELSE IF ~ScanEnabled(cfg, Head(scans)) THEN RunScans(cfg, o, resp, Tail(scans))
    ELSE IF resp.fails = Head(scans) THEN [output |-> o, raised |-> TRUE]
    ELSE RunScans(cfg, AddRecords(o, Head(scans), resp.matches), resp, Tail(scans))

\* The pattern scans of _parse_page.
AddSignals(cfg, o, resp) == RunScans(cfg, o, resp, Scans)

\* Crawler._parse_page(response, c_url): no statement of it is in a try.
ParsePage(cfg, s, o, resp, c_url) ==
    LET sig == AddSignals(cfg, o, resp)
        found == FoundCUrls(cfg, c_url, resp.refs)
    IN  IF sig.raised \/ found.raised
        THEN [schedule |-> s, output |-> sig.output, raised |-> TRUE]
        ELSE IF resp.fails = "title"
        THEN [schedule |-> ReportFoundUrls(s, found.urls), output |-> sig.output,
              raised |-> TRUE]
        ELSE [schedule |-> ReportFoundUrls(s, found.urls),
              output |-> AddRecords(sig.output, "pages", 1),
              raised |-> FALSE]

\* Mutant of ParseDocument: the record is added whatever extract() returned.
ParseDocumentAlways(cfg, s, o, resp, c_url) ==
    [schedule |-> ReportFoundUrls(s, <<>>),
     output |-> AddRecords(o, "documents", 1),
     raised |-> FALSE]

\* Crawler._parse_document(response, c_url)
ParseDocument(cfg, s, o, resp, c_url) ==
    [schedule |-> ReportFoundUrls(s, <<>>),
     output |-> IF DocumentExtract(resp, cfg.documents)
                THEN AddRecords(o, "documents", 1) ELSE o,
     raised |-> FALSE]

\* The try block of crawl_next(): the fetch and the dispatch on content-type.
\* variant names the parse method the response was handed to ("none": neither).
TryBlock(cfg, s, o, resp, c_url) ==
    IF ~resp.ok
    THEN [schedule |-> s, output |-> o, raised |-> TRUE, variant |-> "none"]
    ELSE IF resp.content_type = ""
    THEN [schedule |-> s, output |-> o, raised |-> FALSE, variant |-> "none"]
    ELSE IF resp.content_type \in HtmlTypes
    THEN LET p == ParsePage(cfg, s, o, resp, c_url)
         IN  [schedule |-> p.schedule, output |-> p.output, raised |-> p.raised,
              variant |-> "html"]
    ELSE LET p == ParseDocument(cfg, s, o, resp, c_url)
         IN  [schedule |-> p.schedule, output |-> p.output, raised |-> p.raised,
              variant |-> "document"]

\* Mutant of ExceptBlock: the warning alone.
ExceptBlockSilent(s) == s

\* The except block of crawl_next(): a warning, then an empty report.
ExceptBlock(s) == ReportFoundUrls(s, <<>>)

\* crawl_next() from the try statement to the end of its except block.
FetchAndParse(cfg, s, o, resp, c_url) ==
    LET t == TryBlock(cfg, s, o, resp, c_url)
    IN  [schedule |-> IF t.raised THEN ExceptBlock(t.schedule) ELSE t.schedule,
         output |-> t.output,
         raised |-> t.raised,
         variant |-> t.variant]

\* Mutant of Finish: end() is not called.
FinishNoEnd(o) == o

\* Crawler.finish()
Finish(o) == DomainDataEnd(o)

\* What kind of cycle a response makes.
KindOf(resp) ==
    IF ~resp.ok THEN "error"
    ELSE IF resp.content_type = "" THEN "untyped"
    ELSE IF resp.content_type \in HtmlTypes THEN "html"
    ELSE "document"

\* ---------------------------------------------------------------- actions

\* Crawler(seed, config), or Crawler(seed), which takes the default instance:
\* the state after construction.
Init ==
    \E cfg \in Configs, seedStr \in Seeds, aq \in BOOLEAN, explicit \in BOOLEAN :
        \E s \in {NewSchedule(SeedCUrl(seedStr, aq), cfg)} :
            /\ explicit \/ cfg = DefaultConfig
            /\ seed_url = seedStr
            /\ config = cfg
            /\ shared_default = [config |-> DefaultConfig, held |-> ~explicit]
            /\ url_default_aq = aq
            /\ schedule = s
            /\ output = NewOutput(SeedCUrl(seedStr, aq), cfg)
            /\ \E d \in Range(cfg.default_delay) :
                   delay_sw = TimerStart(UpdateCrawlDelay(s, d))
            /\ dequeued = <<>>
            /\ last = [kind |-> "constructed", refs |-> <<>>, matches |-> 0, ext |-> "", fails |-> "",
                       ret |-> TRUE, raised |-> FALSE,
                       waits |-> 0, waited |-> NoWait, fetches |-> 0,
                       variant |-> "none"]

\* The state a crawl_next() call starts from: both call logs empty.
Entered(s) == [s EXCEPT !.calls = <<>>]

Cleared(o) == [o EXCEPT !.appended = NoRecords]

\* Mutant of CrawlNextFinished: True is returned.
CrawlNextFinishedReturnsTrue ==
    \E n \in {NextUrl(Entered(schedule))} :
        /\ n.url = NoUrl
        /\ output.end_calls < MaxFinishCalls
        /\ schedule' = n.schedule
        /\ output' = Finish(Cleared(output))
        /\ last' = [kind |-> "finished", refs |-> <<>>, matches |-> 0, ext |-> "", fails |-> "",
                    ret |-> TRUE, raised |-> FALSE,
                    waits |-> 0, waited |-> NoWait, fetches |-> 0,
                    variant |-> "none"]
        /\ UNCHANGED <<seed_url, config, shared_default, url_default_aq, delay_sw, dequeued>>

\* crawl_next() when next_url() returns None: finish(), return False.
CrawlNextFinished ==
    \E n \in {NextUrl(Entered(schedule))} :
        /\ n.url = NoUrl
        /\ output.end_calls < MaxFinishCalls
        /\ schedule' = n.schedule
        /\ output' = Finish(Cleared(output))
        /\ last' = [kind |-> "finished", refs |-> <<>>, matches |-> 0, ext |-> "", fails |-> "",
                    ret |-> FALSE, raised |-> FALSE,
                    waits |-> 0, waited |-> NoWait, fetches |-> 0,
                    variant |-> "none"]
        /\ UNCHANGED <<seed_url, config, shared_default, url_default_aq, delay_sw, dequeued>>

\* crawl_next() when next_url() returns a URL and the fetch produces resp:
\* wait, fetch and parse, recompute and restart the delay, return True.
CrawlCycle(resp) ==
    \E n \in {NextUrl(Entered(schedule))} :
        /\ n.url # NoUrl
        /\ \E r \in {FetchAndParse(config, n.schedule, Cleared(output), resp, n.url)} :
               /\ schedule' = r.schedule
               /\ output' = r.output
               /\ \E d \in Range(config.default_delay) :
                      delay_sw' = TimerStart(UpdateCrawlDelay(r.schedule, d))
               /\ last' = [kind |-> KindOf(resp), refs |-> resp.refs,
                           matches |-> resp.matches, ext |-> resp.ext,
                           fails |-> resp.fails, ret |-> TRUE, raised |-> r.raised,
                           waits |-> 1, waited |-> DelayWait(delay_sw), fetches |-> 1,
                           variant |-> r.variant]
        /\ dequeued' = Append(dequeued, n.url)
        /\ UNCHANGED <<seed_url, config, shared_default, url_default_aq>>

CrawlNextError ==
    \E resp \in Responses : KindOf(resp) = "error" /\ CrawlCycle(resp)

CrawlNextHtml ==
    \E resp \in Responses : KindOf(resp) = "html" /\ CrawlCycle(resp)

CrawlNextDocument ==
    \E resp \in Responses : KindOf(resp) = "document" /\ CrawlCycle(resp)

CrawlNextUntyped ==
    \E resp \in Responses : KindOf(resp) = "untyped" /\ CrawlCycle(resp)

Next ==
    \/ CrawlNextFinished
    \/ CrawlNextError
    \/ CrawlNextHtml
    \/ CrawlNextDocument
    \/ CrawlNextUntyped

Spec == Init /\ [][Next]_vars

\* crawl_next() is called again and again: the driver's loop.
FairSpec == Spec /\ WF_vars(Next)

\* ----------------------------------------------------------- two crawlers
\* A second Crawler, also constructed without a config argument: its
\* self.config is the default instance too. What it does to its config is
\* done to that instance, and so to the self.config of every Crawler that
\* holds it.

\* Both Crawlers were constructed without a config argument.
InitTwo == Init /\ shared_default.held

\* The other Crawler's config is left with the fields new: the instance is
\* changed in place.
OtherChanges(new) ==
    /\ new # shared_default.config
    /\ shared_default' = [shared_default EXCEPT !.config = new]
    /\ config' = IF shared_default.held THEN new ELSE config
    /\ UNCHANGED <<seed_url, url_default_aq, schedule, output, delay_sw, dequeued, last>>

\* other.config.set_stealth()
OtherSetStealth ==
    \E new \in {SetStealth(shared_default.config)} : OtherChanges(new)

\* other.config.set_aggressive()
OtherSetAggressive ==
    \E new \in {SetAggressive(shared_default.config)} : OtherChanges(new)

\* other.config.set_layout_only()
OtherSetLayoutOnly ==
    \E new \in {SetLayoutOnly(shared_default.config)} : OtherChanges(new)

\* other.config.scrape_links = False
OtherSetsField ==
    \E new \in {[shared_default.config EXCEPT !.scrape_links = FALSE]} :
        OtherChanges(new)

NextTwo ==
    \/ Next
    \/ OtherSetStealth
    \/ OtherSetAggressive
    \/ OtherSetLayoutOnly
    \/ OtherSetsField

TwoCrawlersSpec == InitTwo /\ [][NextTwo]_vars

\* ----------------------------------------------------------------- claims

\* The normalized key under the crawl's policy: netloc, path, and the query
\* when config.allow_query is on.
PolicyKey(c) == <<c.netloc, c.path, IF config.allow_query THEN c.query ELSE "">>

QueueAndDequeued == dequeued \o schedule.queue

Max(a, b) == IF a >= b THEN a ELSE b

\* What _parse_page builds for a reference that is the seed string itself.
SeedLink == CrawlerURL(seed_url, FALSE, config.allow_query)

\* C1 (dedup): no two URLs next_url() has returned share a normalized key, no
\* URL in the queue has the key of a URL already returned or of another queued
\* URL, and once the seed has been returned a link back to it is not queued.
C1_Dedup ==
    /\ \A i, j \in 1..Len(QueueAndDequeued) :
           i < j => PolicyKey(QueueAndDequeued[i]) # PolicyKey(QueueAndDequeued[j])
    /\ Len(dequeued) >= 1 => SeedLink \notin Range(schedule.queue)

\* With the seed normalized under the policy the links are normalized under,
\* C1_Dedup holds.
C1_DedupSamePolicy == url_default_aq = config.allow_query => C1_Dedup

\* Every candidate report_found_urls() received in the latest crawl_next().
Reported == UNION {Range(schedule.calls[k]) : k \in 1..Len(schedule.calls)}

\* C2 (scope containment): with scrape_subdomains off, every URL next_url()
\* has returned is on the seed's host, subdomain fuzzing on or off.
C2_ScopeContainment ==
    ~config.scrape_subdomains =>
        \A i \in 1..Len(dequeued) : dequeued[i].netloc = NetlocOf(seed_url)

\* Subdomains are off, subdomain fuzzing is on, a page has linked to a
\* subdomain and the crawl went past the seed.
C2_Witness ==
    /\ ~config.scrape_subdomains
    /\ config.fuzz_subs
    /\ Len(dequeued) >= 2
    /\ \E c \in Reported : c.netloc = SubNetloc

\* The fuzz candidates of this crawl.
FuzzCandidatesHere ==
    Range(FuzzCandidates(SeedCUrl(seed_url, url_default_aq), FuzzingOptionsOf(config)))

\* C3 (robots compliance): with obey_robots on, no URL whose path robots
\* disallows is ever queued or returned, discovered or fuzzed; with it off,
\* every in-scope candidate robots disallows has been enqueued.
C3_RobotsCompliance ==
    /\ config.obey_robots =>
           \A i \in 1..Len(QueueAndDequeued) : ~RobotsDisallowed(QueueAndDequeued[i])
    /\ ~config.obey_robots =>
           \A c \in Reported \cup FuzzCandidatesHere :
               RobotsDisallowed(c) /\ InScope(c, NetlocOf(seed_url), config.scrape_subdomains)
                   => Key(c) \in schedule.visited

\* obey_robots is on, path fuzzing is on (its list holds a disallowed path),
\* and a page has linked to a disallowed path, which was not enqueued.
C3_Witness ==
    /\ config.obey_robots
    /\ config.fuzz_paths
    /\ last.kind = "html"
    /\ \E c \in Reported : RobotsDisallowed(c) /\ Key(c) \notin schedule.visited

\* C4 (accumulator lifecycle): start() has been called exactly once, before
\* any record; end() at most once, and only after next_url() returned None;
\* no record was appended out of phase.
C4_AccumulatorLifecycle ==
    /\ output.start_calls = 1
    /\ output.end_calls <= 1
    /\ output.end_calls >= 1 => last.kind = "finished"
    /\ output.out_of_phase = 0

\* C5 (transport failure): a cycle whose fetch failed reported one empty list
\* to the frontier, appended no record, recomputed and restarted the delay,
\* and returned True.
C5_TransportFailure ==
    last.kind = "error" =>
        /\ schedule.calls = << <<>> >>
        /\ output.appended = NoRecords
        /\ delay_sw.running
        /\ delay_sw.s_delay = GetCrawlDelay(schedule)
        /\ delay_sw.duration = Max(delay_sw.default_delay, delay_sw.s_delay)
        /\ last.ret

\* A fetch has failed with URLs still queued.
C5_Witness ==
    /\ last.kind = "error"
    /\ last.raised
    /\ schedule.queue # <<>>
    /\ delay_sw.duration > 0

\* next_url() has returned None and the accumulator was ended.
Finished == last.kind = "finished" /\ output.end_calls >= 1

\* C6 (termination): under repeated crawl_next() calls the crawl reaches
\* Finished, whatever the fetches do; and when nothing but the seed was ever
\* enqueued, Finished is reached after exactly one fetch cycle.
C6_Termination ==
    /\ <>Finished
    /\ [](Finished /\ Cardinality(schedule.visited) = 1 => Len(dequeued) = 1)

\* The crawl has finished after the seed's page, which yielded no link.
C6_Witness ==
    /\ Finished
    /\ Len(dequeued) = 1
    /\ schedule.visited = {Key(dequeued[1])}

\* C7 (delay monotonicity): the delay set at construction and after every
\* cycle is the greater of the sampled default delay and the frontier's
\* crawl delay, so it is at least both.
C7_DelayMonotonicity ==
    /\ delay_sw.default_delay \in Range(config.default_delay)
    /\ delay_sw.s_delay = GetCrawlDelay(schedule)
    /\ delay_sw.duration = Max(delay_sw.default_delay, delay_sw.s_delay)
    /\ delay_sw.duration >= delay_sw.default_delay
    /\ delay_sw.duration >= delay_sw.s_delay

\* After a cycle, the robots delay of the host exceeds a nonzero sample.
C7_Witness ==
    /\ Len(dequeued) >= 1
    /\ delay_sw.default_delay > 0
    /\ delay_sw.s_delay > delay_sw.default_delay
    /\ delay_sw.duration = delay_sw.s_delay

\* The candidate the i-th entry of the path list makes, joined to the seed.
SeedPathCandidate(i) == PathCandidates(NetlocOf(seed_url), PathsList)[i]

Occurrences(c) == Cardinality({k \in 1..Len(schedule.queue) : schedule.queue[k] = c})

Constructed == last.kind = "constructed"

\* C8 as claimed (fuzz injection): with fuzz_paths on, after construction the
\* frontier holds one fuzzed candidate per entry of the path list; with
\* fuzz_paths off the frontier never holds a fuzzed entry.
C8_FuzzInjectionAsClaimed ==
    /\ Constructed /\ config.fuzz_paths =>
           \A i \in 1..Len(PathsList) : Occurrences(SeedPathCandidate(i)) = 1
    /\ ~config.fuzz_paths =>
           \A i \in 1..Len(QueueAndDequeued) : ~QueueAndDequeued[i].fuzzed

\* C8 as amended: with fuzz_paths on, after construction the frontier holds
\* one fuzzed candidate per entry of the path list that robots does not
\* disallow while obey_robots is on, and none for a disallowed entry; with
\* fuzz_paths and fuzz_subs both off the frontier never holds a fuzzed entry.
C8_FuzzInjection ==
    /\ Constructed /\ config.fuzz_paths =>
           \A i \in 1..Len(PathsList) :
               /\ SeedPathCandidate(i).fuzzed
               /\ Occurrences(SeedPathCandidate(i)) =
                      IF config.obey_robots /\ RobotsDisallowed(SeedPathCandidate(i))
                      THEN 0 ELSE 1
    /\ ~config.fuzz_paths /\ ~config.fuzz_subs =>
           \A i \in 1..Len(QueueAndDequeued) : ~QueueAndDequeued[i].fuzzed

\* After construction with fuzz_paths and obey_robots on: the allowed entry
\* is queued, the disallowed one is not.
C8_Witness ==
    /\ Constructed
    /\ config.fuzz_paths
    /\ config.obey_robots
    /\ Occurrences(SeedPathCandidate(1)) = 1
    /\ Occurrences(SeedPathCandidate(2)) = 0

\* C9 (document gating): a response that is not HTML adds exactly one
\* document record when its extension is recognized and no record otherwise;
\* either way nothing is raised, one empty list is reported and the cycle
\* returns True.
C9_DocumentGating ==
    last.kind = "document" =>
        /\ output.appended =
               [NoRecords EXCEPT !.documents = IF last.ext \in config.documents THEN 1 ELSE 0]
        /\ ~last.raised
        /\ schedule.calls = << <<>> >>
        /\ last.ret

\* A zip response with zip taken out of the recognized set: no record.
C9_Witness ==
    /\ last.kind = "document"
    /\ last.ext = "zip"
    /\ "zip" \notin config.documents
    /\ Records(output.appended) = 0

\* The URL the latest cycle fetched.
CurrentUrl == dequeued[Len(dequeued)]

UnparsableRef(r) == Malformed(FoundUrl(CurrentUrl, r))

\* The CrawlerURLs of the references of the latest page that do parse.
ParsableCUrls ==
    LET ok == SelectSeq(last.refs, LAMBDA r : ~UnparsableRef(r))
    IN  [i \in 1..Len(ok) |->
            CrawlerURL(FoundUrl(CurrentUrl, ok[i]), FALSE, config.allow_query)]

\* C10 (malformed candidate dropped): when a reference of an HTML page does
\* not parse, the other references of the page are still reported to the
\* frontier and the page record is still appended.
C10_MalformedDropped ==
    /\ last.kind = "html"
    /\ config.scrape_links
    /\ \E i \in 1..Len(last.refs) : UnparsableRef(last.refs[i])
    => /\ schedule.calls = <<ParsableCUrls>>
       /\ output.appended.pages = 1

\* The candidates _parse_page passes to the frontier for the latest page when
\* every step of it succeeds.
PageLinks == IF config.scrape_links THEN ParsableCUrls ELSE <<>>

\* C11 (extraction error isolated): when one pattern scan of an HTML page
\* raises, the page's links are still reported to the frontier and the page
\* record is still appended.
C11_ExtractionIsolated ==
    /\ last.kind = "html"
    /\ last.fails \in Range(Scans)
    /\ ScanEnabled(config, last.fails)
    /\ \A i \in 1..Len(last.refs) : ~UnparsableRef(last.refs[i])
    => /\ schedule.calls = <<PageLinks>>
       /\ output.appended.pages = 1

\* Where entry c stands in the enqueue log.
EnqueuedAt(c) == CHOOSE k \in 1..Len(schedule.enqueued) : schedule.enqueued[k] = c

\* Index of the first element of sequence s equal to c.
FirstAt(s, c) == CHOOSE k \in 1..Len(s) : s[k] = c /\ \A m \in 1..(k - 1) : s[m] # c

\* The entries the step appended to the queue.
NewlyEnqueued ==
    SubSeq(schedule'.enqueued, Len(schedule.enqueued) + 1, Len(schedule'.enqueued))

\* C12 (FIFO order): the URLs returned, followed by the URLs queued, stand in
\* the order they were enqueued; a page parsed without error passes its links
\* to report_found_urls in the order the document holds them; and the entries
\* one cycle enqueues stand in their order of first appearance in that list.
C12_FifoOrder ==
    /\ [](/\ \A i \in 1..Len(QueueAndDequeued) :
               QueueAndDequeued[i] \in Range(schedule.enqueued)
          /\ \A i, j \in 1..Len(QueueAndDequeued) :
               i < j => EnqueuedAt(QueueAndDequeued[i]) < EnqueuedAt(QueueAndDequeued[j])
          /\ last.kind = "html" /\ ~last.raised => schedule.calls = <<PageLinks>>)
    /\ [][/\ schedule.queue # <<>> =>
               \/ dequeued' = dequeued
               \/ \E k \in 1..Len(schedule.queue) :
                      /\ dequeued' = Append(dequeued, schedule.queue[k])
                      /\ \A m \in 1..(k - 1) :
                             schedule.queue[m] \notin Range(schedule'.queue)
          /\ \A i, j \in 1..Len(NewlyEnqueued) :
               i < j => /\ schedule'.calls # <<>>
                        /\ FirstAt(schedule'.calls[1], NewlyEnqueued[i])
                               < FirstAt(schedule'.calls[1], NewlyEnqueued[j])]_vars

\* A page has passed two links that were both enqueued, the first ahead of
\* the second, behind a URL an earlier page had enqueued.
C12_Witness ==
    /\ last.kind = "html"
    /\ ~last.raised
    /\ Len(dequeued) >= 2
    /\ Len(PageLinks) >= 2
    /\ \E i, j \in 1..Len(schedule.queue) :
           /\ 1 < i /\ i < j
           /\ schedule.queue[i] = PageLinks[1]
           /\ schedule.queue[j] = PageLinks[2]

\* C13 (delay honored once per fetch): a crawl_next() call that returns a URL
\* waits on the delay timer once and fetches once, one that finds the
\* frontier exhausted does neither; and the timer waited on is the one the
\* previous cycle (or the construction) computed and started.
C13_DelayOncePerFetch ==
    /\ [](/\ last.kind \notin {"constructed", "finished"} =>
               last.waits = 1 /\ last.fetches = 1
          /\ last.kind \in {"constructed", "finished"} =>
               last.waits = 0 /\ last.fetches = 0)
    /\ [][dequeued' # dequeued =>
              /\ delay_sw.running
              /\ last'.waited = [duration |-> delay_sw.duration, running |-> TRUE]]_vars

\* A cycle after a failed fetch has waited on a timer with a delay to honor.
C13_Witness ==
    /\ Len(dequeued) >= 2
    /\ last.kind = "error"
    /\ last.waits = 1
    /\ last.waited.running
    /\ last.waited.duration > 0

\* Whether the path of c matches a prefix of config.blacklisted_directories.
BlacklistedHere(c) == \E d \in config.blacklisted_directories : IsPrefix(d, c.path)

\* The entries that were enqueued, are queued no longer and were not returned.
Skipped == {c \in Range(schedule.enqueued) : c \notin Range(QueueAndDequeued)}

\* C14 (blacklist): no URL next_url() has returned matches a blacklisted
\* prefix; an entry leaves the queue unreturned only when it matches one, and
\* is not queued again; and next_url() returns None only when every entry
\* that was queued matched one.
C14_Blacklist ==
    /\ [](/\ \A i \in 1..Len(dequeued) : ~BlacklistedHere(dequeued[i])
          /\ \A c \in Skipped : BlacklistedHere(c)
          /\ last.kind = "finished" =>
               \A c \in Range(schedule.enqueued) :
                   BlacklistedHere(c) \/ c \in Range(dequeued))
    /\ [][/\ \A c \in Skipped : c \notin Range(schedule'.queue)
          /\ dequeued' = dequeued /\ schedule' # schedule =>
               /\ \A c \in Range(schedule.queue) : BlacklistedHere(c)
               /\ schedule'.queue = <<>>
               /\ ~last'.ret]_vars

\* A blacklisted entry was skipped and the entry enqueued behind it returned.
C14_Witness ==
    /\ config.blacklisted_directories # {}
    /\ \E c \in Skipped :
           /\ BlacklistedHere(c)
           /\ \E i \in 1..Len(dequeued) : EnqueuedAt(c) < EnqueuedAt(dequeued[i])

\* The latest call fetched a URL, and it was not the first fetch of the crawl.
LaterFetch == Len(dequeued) >= 2 /\ last.kind \notin {"constructed", "finished"}

\* C15 (politeness per host): with obey_robots on, the delay waited before a
\* fetch that follows another fetch is at least the robots crawl-delay of the
\* host of the URL fetched, whatever host the URL before it was on.
C15_PolitenessPerHost ==
    config.obey_robots /\ LaterFetch =>
        last.waited.duration >= RobotsPolicy(CurrentUrl.netloc).delay

\* C15_PolitenessPerHost holds when the URL before was on the same host.
C15_PolitenessSameHost ==
    /\ config.obey_robots
    /\ LaterFetch
    /\ dequeued[Len(dequeued) - 1].netloc = CurrentUrl.netloc
    => last.waited.duration >= RobotsPolicy(CurrentUrl.netloc).delay

\* The latest call fetched a response (the fetch did not fail).
Fetched == last.kind \in {"html", "document", "untyped"}

\* C16 (variant dispatch): a fetched response is handed to the HTML variant
\* when its content type holds text/html and to the document variant
\* otherwise, a response without a content type included, which then adds a
\* document record when its extension is recognized.
C16_VariantDispatch ==
    Fetched =>
        /\ last.variant = IF last.kind = "html" THEN "html" ELSE "document"
        /\ last.kind = "untyped" /\ last.ext \in config.documents =>
               output.appended.documents = 1

\* C16_VariantDispatch holds for the responses that declare a content type.
C16_TypedDispatch == last.kind # "untyped" => C16_VariantDispatch

\* C17 (one frontier report per cycle): a crawl_next() call that returned a
\* URL called report_found_urls once: with the page's links when an HTML page
\* was parsed without error, with the empty list otherwise.
C17_OneReportPerCycle ==
    last.kind \notin {"constructed", "finished"} =>
        schedule.calls =
            IF last.kind = "html" /\ ~last.raised THEN <<PageLinks>> ELSE << <<>> >>

\* C17_OneReportPerCycle holds for the cycles whose response declares a
\* content type and whose parse does not fail after the links were reported.
C17_OneReportTyped ==
    last.kind # "untyped" /\ last.fails # "title" => C17_OneReportPerCycle

\* C18 (Finished is absorbing): after a crawl_next() call has returned False,
\* every later call returns False, fetches nothing, reports nothing to the
\* frontier and appends no record; and a call returns True exactly when it
\* took a URL from the frontier, whatever its fetch and parse did.
C18_FinishedAbsorbing ==
    /\ [][~last.ret =>
              /\ ~last'.ret
              /\ last'.fetches = 0
              /\ dequeued' = dequeued
              /\ schedule'.calls = <<>>
              /\ schedule'.queue = <<>>
              /\ output'.appended = NoRecords]_vars
    /\ [][last'.ret <=> Len(dequeued') = Len(dequeued) + 1]_vars

\* A second call after exhaustion, at the end of a crawl that fetched at
\* least two URLs.
C18_Witness ==
    /\ ~last.ret
    /\ output.end_calls = 2
    /\ Len(dequeued) >= 2

\* The queue as the construction of this Crawler left it: the seed and the
\* fuzz candidates that were admitted.
InitialQueue == NewSchedule(SeedCUrl(seed_url, url_default_aq), config).queue

\* C19 (link toggle): with scrape_links off no cycle passes a candidate to
\* the frontier, so nothing is enqueued after construction and the URLs
\* returned are the seed and the fuzz candidates; an HTML page parsed without
\* error still adds its page record and the matches of every enabled scan.
C19_LinkToggle ==
    ~config.scrape_links =>
        /\ \A k \in 1..Len(schedule.calls) : schedule.calls[k] = <<>>
        /\ schedule.enqueued = InitialQueue
        /\ Range(dequeued) \subseteq Range(InitialQueue)
        /\ last.kind = "finished" =>
               Range(dequeued) = {c \in Range(InitialQueue) : ~BlacklistedHere(c)}
        /\ last.kind = "html" /\ ~last.raised =>
               /\ output.appended.pages = 1
               /\ \A i \in 1..Len(Scans) :
                      output.appended[Scans[i]] =
                          IF ScanEnabled(config, Scans[i]) THEN last.matches ELSE 0

\* scrape_links is off and path fuzzing on: a fuzz candidate's page, which
\* holds links and an email, was fetched and parsed.
C19_Witness ==
    /\ ~config.scrape_links
    /\ config.fuzz_paths
    /\ Len(dequeued) >= 2
    /\ CurrentUrl.fuzzed
    /\ last.kind = "html"
    /\ ~last.raised
    /\ last.refs # <<>>
    /\ output.appended.emails >= 1
    /\ output.appended.pages = 1

\* C20 (configuration isolation): when the other Crawler applies a profile
\* to its config or assigns a field of it, this Crawler's config keeps its
\* value.
C20_ConfigIsolation ==
    [][shared_default'.config # shared_default.config => config' = config]_vars

====
